---- MODULE Spec2Model ----
(***************************************************************************)
(* A model of src/utils.ts of vscode-coder: the line splitter onLine, and  *)
(* the archive extractors extractTar and extractZip with the temporary     *)
(* directory helpers tmpdir and clean.                                     *)
(*                                                                         *)
(* Text is a sequence of one-character strings.  The character "e" stands  *)
(* for a two-byte UTF-8 character (U+00E9), whose bytes are written "C3"   *)
(* and "A9"; every other character is one byte, written as itself.         *)
(***************************************************************************)
EXTENDS Integers, Sequences, FiniteSets, TLC

\* ------------------------------------------------------------------ bounds

\* Longest stream content, in characters, drawn exhaustively.
MaxLen == 3
\* Most bytes one 'data' event carries.
MaxChunk == 2

\* ------------------------------------------------------------- line splitter

NL == "\n"
CR == "\r"
Lead == "C3"
Cont == "A9"

Alphabet == {"a", NL, CR, "e"}

RECURSIVE SeqsUpTo(_, _)
SeqsUpTo(S, n) ==
  IF n = 0 THEN {<<>>}
  ELSE LET shorter == SeqsUpTo(S, n - 1)
       IN shorter \cup {Append(t, x) : t \in {u \in shorter : Len(u) = n - 1}, x \in S}

\* The stream of the spec's example, "a\nb\nc\n".
AbcContent == <<"a", NL, "b", NL, "c", NL>>

Contents == SeqsUpTo(Alphabet, MaxLen) \cup {AbcContent}

\* The bytes a process writes for a text (UTF-8).
RECURSIVE Encode(_)
Encode(text) ==
  IF text = <<>> THEN <<>>
  ELSE (IF Head(text) = "e" THEN <<Lead, Cont>> ELSE <<Head(text)>>) \o Encode(Tail(text))

\* Each chunk turned into a string on its own (what buffer + d does to a Buffer
\* when no encoding is set): a character cut by the chunk boundary is lost, each
\* half becoming a replacement character "?".
RECURSIVE WritePerChunk(_, _)
WritePerChunk(pend, chunk) ==
  IF chunk = <<>> THEN [out |-> <<>>, pend |-> <<>>]
  ELSE LET b == Head(chunk)
           rest == Tail(chunk)
       IN IF b = Lead /\ rest # <<>> /\ Head(rest) = Cont
          THEN [out |-> <<"e">> \o WritePerChunk(<<>>, Tail(rest)).out, pend |-> <<>>]
          ELSE IF b \in {Lead, Cont}
          THEN [out |-> <<"?">> \o WritePerChunk(<<>>, rest).out, pend |-> <<>>]
          ELSE [out |-> <<b>> \o WritePerChunk(<<>>, rest).out, pend |-> <<>>]

\* stream.setEncoding("utf8"): the stream's decoder turns each chunk of bytes
\* into the characters completed so far and keeps the bytes of a character
\* the chunk boundary cut (pend) for the next chunk.
RECURSIVE Write(_, _)
Write(pend, chunk) ==
  IF chunk = <<>> THEN [out |-> <<>>, pend |-> pend]
  ELSE LET b == Head(chunk)
       IN IF b = Lead THEN Write(<<b>>, Tail(chunk))
          ELSE LET r == Write(<<>>, Tail(chunk))
               IN [out |-> <<(IF b = Cont /\ pend = <<Lead>> THEN "e" ELSE b)>> \o r.out,
                   pend |-> r.pend]

\* data.split(/\r?\n|\r/): a carriage return ends a segment as well.
RECURSIVE SplitAnyBreak(_)
SplitAnyBreak(data) ==
  IF data = <<>> THEN << <<>> >>
  ELSE LET rest == SplitAnyBreak(Tail(data))
       IN IF Head(data) \in {NL, CR} THEN << <<>> >> \o rest
          ELSE << <<Head(data)>> \o Head(rest) >> \o Tail(rest)

\* data.split("\n"): the segments between newlines, at least one.
RECURSIVE Split(_)
Split(data) ==
  IF data = <<>> THEN << <<>> >>
  ELSE LET rest == Split(Tail(data))
       IN IF Head(data) = NL THEN << <<>> >> \o rest
          ELSE << <<Head(data)>> \o Head(rest) >> \o Tail(rest)

\* for (let i = 0; i < last; ++i) callback(split[i]), emitting the partial
\* last segment too.
CallbacksAll(split) == split

\* for (let i = 0; i < last; ++i) callback(split[i])
Callbacks(split) == SubSeq(split, 1, Len(split) - 1)

\* buffer = "" in place of buffer = split[last]
RemainderDropped(split) == <<>>

\* buffer = split[0] in place of buffer = split[last]
RemainderFirst(split) == split[1]

\* buffer = split[last]
Remainder(split) == split[Len(split)]

\* An 'end' handler that skips an empty buffer.
FlushNonEmpty(buf) == IF buf = <<>> THEN <<>> ELSE <<buf>>

\* stream.on("end", () => callback(buffer))
Flush(buf) == <<buf>>

Streams == {"A", "B"}

VARIABLES
  content,  \* the text the process writes to the stream
  pos,      \* per stream: the bytes delivered so far
  pend,     \* per stream: the decoder's bytes of a cut character
  buffer,   \* per stream: onLine's buffer
  lines,    \* per stream: the callback's arguments, in invocation order
  st,       \* per stream: "open", "ended" or "errored"
  midchar,  \* per stream: some chunk ended in the middle of a character
  midline   \* per stream: some chunk ended in the middle of a line

lineVars == <<content, pos, pend, buffer, lines, st, midchar, midline>>

Bytes == Encode(content)

\* --------------------------------------------------------- archive extractor

\* Most 'data' events one source stream emits.
NChunks == 2

\* Calls of extractTar or extractZip the caller makes, possibly overlapping.
Calls == {1, 2}

\* What the caller runs: one extractTar call (calls of extractTar share no
\* state), or one or two extractZip calls (which share the staging namespace).
Workloads ==
  { [c \in Calls |-> IF c = 1 THEN "tar" ELSE "none"],
    [c \in Calls |-> IF c = 1 THEN "zip" ELSE "none"],
    [c \in Calls |-> "zip"] }

\* The downloadPath argument of call c.
DownloadPath(c) == <<"download", c>>

\* The directory mkdtemp creates for call c under coder/zip-staging.
TempDir(c) == <<"zip-staging", "tmp", c>>

\* A stage that can still take input or finish.
Alive == {"open", "inputEnded"}

\* stage.destroy(error): the stage stops; its 'error' event is emitted on a
\* later tick.  Destroying a stage that is not alive changes nothing.
Destroy(stage, error) ==
  IF stage.st \in Alive THEN [st |-> "destroying", err |-> error] ELSE stage

\* The stage emits 'error' itself.
Fail(stage, error) == [st |-> "errored", err |-> error]

\* pipe's 'end' handler: dest.end().
End(stage) == IF stage.st = "open" THEN [stage EXCEPT !.st = "inputEnded"] ELSE stage

NoStage == [st |-> "none", err |-> "none"]
NewStage == [st |-> "open", err |-> "none"]

\* A function that never pauses the stream it is handed.
PauseOmitted(flowing) == flowing

\* response.pause()
Pause(flowing) == FALSE

\* No 'error' listener on response.
OnResponseErrorIgnored(first, error) == first

\* response.on("error", (error) => decompress.destroy(error)) and
\* response.on("error", (error) => write.destroy(error))
OnResponseError(first, error) == Destroy(first, error)

\* No 'error' listener on decompress.
OnDecompressErrorIgnored(dest, error) == dest

\* decompress.on("error", (error) => destination.destroy(error))
OnDecompressError(dest, error) == Destroy(dest, error)

Pending == [st |-> "pending", err |-> "none"]

\* No 'error' listener on the terminal stage.
OnErrorIgnored(promise, error) == promise

\* An 'error' listener that resolves: resolve attached to both events.
OnErrorResolves(promise, error) ==
  IF promise.st = "pending" THEN [st |-> "resolved", err |-> "none"] ELSE promise

\* destination.on("error", reject) and write.on("error", reject)
OnError(promise, error) ==
  IF promise.st = "pending" THEN [st |-> "rejected", err |-> error] ELSE promise

\* destination.on("finish", resolve) and write.on("finish", resolve)
OnFinish(promise) ==
  IF promise.st = "pending" THEN [st |-> "resolved", err |-> "none"] ELSE promise

\* The calls made on response: pause() at entry; pipe(), on("error", ...) and
\* resume() once the destination directory (and the staging file) are there.
AtEntry == {"pause"}
AtWiring == {"pipe", "on", "resume"}

\* A failure path that also destroys the source, as stream.pipeline does.
OnFailureDestroySource(ops) == ops \cup {"destroy"}

\* What the 'error' listeners of the stages and the rejected await do to
\* response when a stage failed: nothing.
OnFailure(ops) == ops

\* A return of some other path than the one asked for.
ReturnTemp(c) == TempDir(c)

\* return downloadPath
ReturnValue(c) == DownloadPath(c)

VARIABLES
  call,      \* per call: the state of the call and of its streams (see IdleCall)
  dirs,      \* the destination directories that exist
  nsExists,  \* whether <tmp>/coder/zip-staging exists
  staging,   \* the directories under zip-staging that exist, by the call that made them
  files      \* the calls whose staging directory holds archive.zip

extractVars == <<call, dirs, nsExists, staging, files>>

\* fs.promises.rmdir(dir) with no option: it refuses a directory that is
\* missing or not empty.
RmdirPlain(exists, entries) ==
  [ok |-> exists /\ entries = {}, exists |-> exists /\ entries # {}, entries |-> entries]

\* fs.promises.rmdir(dir, { recursive: true }): the directory and all it holds
\* are removed; a directory that does not exist is no error.
Rmdir(exists, entries) == [ok |-> TRUE, exists |-> FALSE, entries |-> {}]

\* A cleanup of the call's own staging directory only: rmdir(temp, ...).
CleanOwnDir(c) == [ok |-> TRUE, exists |-> nsExists, entries |-> staging \ {c}]

\* extractZip: clean("zip-staging"), the namespace every call shares.
CleanStaging(c) == Rmdir(nsExists, staging)

IdleCall(k, f) ==
  [ kind |-> k,             \* "tar", "zip" or "none"
    pc |-> "idle",          \* where the async function is
    flowing |-> f,          \* response is in flowing mode
    response |-> "open",    \* "open", "ended", "errored" or "closed"
    ops |-> {},             \* the methods the function called on response
    wired |-> FALSE,        \* response is piped and the listeners are attached
    sent |-> 0,             \* 'data' events response emitted
    got |-> 0,              \* chunks written to the first stage
    lost |-> 0,             \* chunks emitted with no consumer attached
    early |-> 0,            \* chunks emitted before the destination directory existed
    errAt |-> "none",       \* when response reported its error: "prewire", "wired"
    decompress |-> NoStage,
    destination |-> NoStage,
    write |-> NoStage,
    promise |-> Pending,    \* the promise awaited at lines 138 and 162
    extracted |-> FALSE,    \* extractZip: unzip resolved
    cleanRan |-> FALSE,     \* extractZip: clean("zip-staging") was called and settled
    result |-> Pending,     \* the promise the call returned
    value |-> <<>> ]        \* what the call resolved with

Running(c) == call[c].pc \notin {"idle", "done"}

InitExtractVars ==
  /\ \E w \in Workloads : \E f \in [Calls -> BOOLEAN] :
       call = [c \in Calls |-> IdleCall(w[c], f[c])]
  /\ dirs = {}
  /\ nsExists \in BOOLEAN
  /\ staging = {}
  /\ files = {}

IdleExtractVars ==
  /\ call = [c \in Calls |-> IdleCall("none", FALSE)]
  /\ dirs = {}
  /\ nsExists = FALSE
  /\ staging = {}
  /\ files = {}

IdleLineVars ==
  /\ content = <<>>
  /\ pos = [s \in Streams |-> 0]
  /\ pend = [s \in Streams |-> <<>>]
  /\ buffer = [s \in Streams |-> <<>>]
  /\ lines = [s \in Streams |-> <<>>]
  /\ st = [s \in Streams |-> "open"]
  /\ midchar = [s \in Streams |-> FALSE]
  /\ midline = [s \in Streams |-> FALSE]

\* ------------------------------------------- temporary directories, wrapExit

\* Most calls of tmpdir and clean the caller makes, possibly overlapping.
MaxOps == 3

Ops == 1..MaxOps

\* Most 'error' and 'exit' events one child process emits.
MaxEvents == 4

\* The events of a child process: 'error' with the error (the command was not
\* found, the process could not be killed), and 'exit' with code 0, a code
\* other than 0, or no code (null, when a signal ended it).
ProcEvents ==
  { [type |-> "error", arg |-> "ENOENT"], [type |-> "error", arg |-> "EPERM"],
    [type |-> "exit", arg |-> "0"], [type |-> "exit", arg |-> "1"],
    [type |-> "exit", arg |-> "null"] }

\* new Error(`Command "${proc.spawnfile}" failed with code ${code}`)
FailedWithCode(code) == "failed with code " \o code

\* proc.on("error", reject)
OnProcError(promise, error) ==
  IF promise.st = "pending" THEN [st |-> "rejected", err |-> error] ELSE promise

\* An 'exit' listener that tests !code: no code counts as success.
OnExitFalsy(promise, code) ==
  IF promise.st # "pending" THEN promise
  ELSE IF code \in {"0", "null"} THEN [st |-> "resolved", err |-> "none"]
  ELSE [st |-> "rejected", err |-> FailedWithCode(code)]

\* proc.on("exit", (code) => code === 0 ? resolve() : reject(new Error(...)))
OnExit(promise, code) ==
  IF promise.st # "pending" THEN promise
  ELSE IF code = "0" THEN [st |-> "resolved", err |-> "none"]
  ELSE [st |-> "rejected", err |-> FailedWithCode(code)]

VARIABLES
  op,           \* per call of tmpdir or clean: what it is and where it is
  events,       \* the events the process passed to wrapExit has emitted
  exitPromise   \* the promise wrapExit returned

helperVars == <<op, events, exitPromise>>

IdleOp ==
  [ fn |-> "none",         \* "tmpdir", "clean" or "none"
    pc |-> "idle",
    result |-> Pending,
    before |-> FALSE,      \* clean: the namespace existed when rmdir ran
    after |-> Rmdir(FALSE, {}) ]   \* clean: what rmdir left

IdleHelperVars ==
  /\ op = [p \in Ops |-> IdleOp]
  /\ events = <<>>
  /\ exitPromise = Pending

vars == <<lineVars, extractVars, helperVars>>

\* ------------------------------------------------- line splitter: behaviour

\* onLine(stream, callback) called on each of two streams carrying the same
\* content: buffer = "", the listeners attached, nothing delivered yet.
InitLine ==
  /\ content \in Contents
  /\ pos = [s \in Streams |-> 0]
  /\ pend = [s \in Streams |-> <<>>]
  /\ buffer = [s \in Streams |-> <<>>]
  /\ lines = [s \in Streams |-> <<>>]
  /\ st = [s \in Streams |-> "open"]
  /\ midchar = [s \in Streams |-> FALSE]
  /\ midline = [s \in Streams |-> FALSE]
  /\ IdleExtractVars
  /\ IdleHelperVars

\* One 'data' event of stream s carrying the next n bytes.
OnData(s) ==
  \E n \in 0..MaxChunk :
    /\ st[s] = "open"
    /\ pos[s] + n <= Len(Bytes)
    /\ LET w == Write(pend[s], SubSeq(Bytes, pos[s] + 1, pos[s] + n))
           data == buffer[s] \o w.out
           split == Split(data)
       IN /\ lines' = [lines EXCEPT ![s] = @ \o Callbacks(split)]
          /\ buffer' = [buffer EXCEPT ![s] = Remainder(split)]
          /\ pend' = [pend EXCEPT ![s] = w.pend]
          /\ midchar' = [midchar EXCEPT ![s] = @ \/ w.pend # <<>>]
          /\ midline' = [midline EXCEPT ![s] = @ \/ split[Len(split)] # <<>>]
    /\ pos' = [pos EXCEPT ![s] = @ + n]
    /\ UNCHANGED <<content, st, extractVars, helperVars>>

\* The 'end' event of stream s, after its last byte.
OnEnd(s) ==
  /\ st[s] = "open"
  /\ pos[s] = Len(Bytes)
  /\ lines' = [lines EXCEPT ![s] = @ \o Flush(buffer[s])]
  /\ st' = [st EXCEPT ![s] = "ended"]
  /\ UNCHANGED <<content, pos, pend, buffer, midchar, midline, extractVars, helperVars>>

\* Stream s reports an error and is destroyed: no 'data' and no 'end' follow.
\* onLine attaches no 'error' listener.
OnStreamError(s) ==
  /\ st[s] = "open"
  /\ st' = [st EXCEPT ![s] = "errored"]
  /\ UNCHANGED <<content, pos, pend, buffer, lines, midchar, midline, extractVars, helperVars>>

NextLine ==
  \E s \in Streams : OnData(s) \/ OnEnd(s) \/ OnStreamError(s)

SpecLine == InitLine /\ [][NextLine]_vars

\* The event loop delivers the events of a stream that is still open: its
\* pending data and then its 'end'.  Whether a stream reports an error is up
\* to the stream.
FairSpecLine ==
  SpecLine /\ \A s \in Streams : WF_vars(OnData(s) \/ OnEnd(s))

\* ---------------------------------------------------- line splitter: claims

RECURSIVE CountNL(_)
CountNL(text) ==
  IF text = <<>> THEN 0
  ELSE (IF Head(text) = NL THEN 1 ELSE 0) + CountNL(Tail(text))

\* The text after the last newline.
RECURSIVE LastSegment(_)
LastSegment(text) ==
  IF text = <<>> \/ text[Len(text)] = NL THEN <<>>
  ELSE Append(LastSegment(SubSeq(text, 1, Len(text) - 1)), text[Len(text)])

EndsWithNL(text) == text # <<>> /\ text[Len(text)] = NL

IsPrefix(p, q) == Len(p) <= Len(q) /\ p = SubSeq(q, 1, Len(p))

\* C1: two streams carrying the same content, cut into chunks in any two
\* ways (empty chunks, cuts inside a line, inside a character or at a
\* newline), have passed the same sequence of strings to the callback once
\* both have handled 'end'.
C1_ChunkingInvariance ==
  (st["A"] = "ended" /\ st["B"] = "ended") => lines["A"] = lines["B"]

\* Both streams ended, one cut inside a character and inside a line, the
\* other cut at no character, over a content of several lines.
C1_Witness ==
  /\ st["A"] = "ended" /\ st["B"] = "ended"
  /\ midchar["A"] /\ midline["A"] /\ ~midchar["B"]
  /\ Len(lines["A"]) >= 2

\* C2: a stream that delivers zero bytes and ends has invoked the callback
\* exactly once, with the empty string, and not before 'end'.
C2_ZeroBytesOneEmptyLine ==
  \A s \in Streams :
    content = <<>> =>
      /\ st[s] = "ended" => lines[s] = << <<>> >>
      /\ st[s] # "ended" => lines[s] = <<>>

C2_Witness == content = <<>> /\ st["A"] = "ended" /\ Len(lines["A"]) = 1

\* C3: whatever the life of the stream (data then end, no data then end, or
\* an error), the callback is eventually invoked at least once.
C3_CallbackEventuallyInvoked ==
  \A s \in Streams : <>(lines[s] # <<>>)

\* C4: for a content that does not end with a newline, the text after the
\* last newline is passed to the callback once, by the 'end' handler, as the
\* last invocation: before 'end' there is one invocation per newline
\* delivered, after 'end' one more, whose argument is that text.
C4_FinalPartialLineOnce ==
  \A s \in Streams :
    ~EndsWithNL(content) =>
      /\ st[s] # "ended" =>
           Len(lines[s]) = CountNL(SubSeq(Bytes, 1, pos[s]))
      /\ st[s] = "ended" =>
           /\ Len(lines[s]) = CountNL(content) + 1
           /\ lines[s][Len(lines[s])] = LastSegment(content)

\* A content "a\na", its last "a" delivered in a chunk of its own, then 'end'.
C4_Witness ==
  /\ content = <<"a", NL, "a">>
  /\ st["A"] = "ended"
  /\ midline["A"]
  /\ lines["A"] = << <<"a">>, <<"a">> >>

\* C5: the content "a\nb\nc\n" yields "a", "b", "c" in that order while
\* the stream is open, and the 'end' handler flushes the empty remainder
\* once: no other empty line is emitted.
C5_AbcLines ==
  \A s \in Streams :
    content = AbcContent =>
      /\ st[s] # "ended" => IsPrefix(lines[s], << <<"a">>, <<"b">>, <<"c">> >>)
      /\ st[s] = "ended" => lines[s] = << <<"a">>, <<"b">>, <<"c">>, <<>> >>

C5_Witness ==
  /\ content = AbcContent
  /\ st["A"] = "ended" /\ midline["A"]
  /\ st["B"] = "ended" /\ ~midline["B"]

\* lines.join("\n")
RECURSIVE JoinNL(_)
JoinNL(ls) ==
  IF ls = <<>> THEN <<>>
  ELSE IF Len(ls) = 1 THEN ls[1]
  ELSE ls[1] \o <<NL>> \o JoinNL(Tail(ls))

\* Every line followed by a newline, one after the other.
RECURSIVE EachWithNL(_)
EachWithNL(ls) ==
  IF ls = <<>> THEN <<>> ELSE ls[1] \o <<NL>> \o EachWithNL(Tail(ls))

Chars(text) == {text[i] : i \in 1..Len(text)}

Only(text, ch) == SelectSeq(text, LAMBDA x : x = ch)

\* The text the 'data' handler of stream s has been handed so far.
Received(s) == Write(<<>>, SubSeq(Bytes, 1, pos[s])).out

\* C18: once a stream has ended, the callback's arguments joined with "\n" in
\* invocation order are the content; there is one invocation more than the
\* content has newlines, no argument holds a newline, and the carriage
\* returns of the content are all in the arguments, in place.
C18_RoundTrip ==
  \A s \in Streams :
    st[s] = "ended" =>
      /\ JoinNL(lines[s]) = content
      /\ Len(lines[s]) = CountNL(content) + 1
      /\ \A i \in 1..Len(lines[s]) : NL \notin Chars(lines[s][i])
      /\ Only(JoinNL(lines[s]), CR) = Only(content, CR)

\* The content "a\r\n" was cut after "a" and the stream ended: the callback
\* got "a\r" and "".
C18_Witness ==
  /\ content = <<"a", CR, NL>>
  /\ st["A"] = "ended"
  /\ midline["A"]
  /\ lines["A"] = << <<"a", CR>>, <<>> >>

\* C19: while a stream has not ended, its buffer holds no newline and is the
\* text received after the last newline received (empty when the text
\* received ends with a newline), and the lines emitted, each followed by a
\* newline, followed by the buffer, are the text received.
C19_AccumulatorInvariant ==
  \A s \in Streams :
    st[s] # "ended" =>
      /\ NL \notin Chars(buffer[s])
      /\ buffer[s] = LastSegment(Received(s))
      /\ EachWithNL(lines[s]) \o buffer[s] = Received(s)

\* Stream A has emitted a line and holds the start of the next in its buffer;
\* stream B has received text ending with a newline and its buffer is empty.
C19_Witness ==
  /\ st["A"] = "open" /\ lines["A"] # <<>> /\ buffer["A"] # <<>>
  /\ st["B"] = "open" /\ EndsWithNL(Received("B")) /\ buffer["B"] = <<>>

\* -------------------------------------------- archive extractor: behaviour

\* The stage response is piped into.
First(c) == IF call[c].kind = "tar" THEN "decompress" ELSE "write"

Rejected(error) == [st |-> "rejected", err |-> error]
Resolved == [st |-> "resolved", err |-> "none"]

\* extractTar / extractZip is called: response.pause(), then mkdir is awaited.
Enter(c) ==
  /\ call[c].kind # "none"
  /\ call[c].pc = "idle"
  /\ call' = [call EXCEPT ![c].flowing = Pause(@),
                          ![c].ops = @ \cup AtEntry,
                          ![c].pc = "mkdir"]
  /\ UNCHANGED <<dirs, nsExists, staging, files, lineVars, helperVars>>

\* extractTar: mkdir resolved; lines 130-141 run without a break: gunzip and
\* the tar extraction are created and piped, the 'error' and 'finish'
\* listeners attached and response resumed (data flows from the next tick).
TarMkdirDone(c) ==
  /\ call[c].kind = "tar"
  /\ call[c].pc = "mkdir"
  /\ dirs' = dirs \cup {DownloadPath(c)}
  /\ call' = [call EXCEPT ![c].decompress = NewStage,
                          ![c].destination = NewStage,
                          ![c].wired = TRUE,
                          ![c].ops = @ \cup AtWiring,
                          ![c].flowing = TRUE,
                          ![c].pc = "await"]
  /\ UNCHANGED <<nsExists, staging, files, lineVars, helperVars>>

\* extractZip: mkdir resolved; tmpdir("zip-staging") is called.
ZipMkdirDone(c) ==
  /\ call[c].kind = "zip"
  /\ call[c].pc = "mkdir"
  /\ dirs' = dirs \cup {DownloadPath(c)}
  /\ call' = [call EXCEPT ![c].pc = "tmpdir"]
  /\ UNCHANGED <<nsExists, staging, files, lineVars, helperVars>>

\* mkdir rejected: the call rejects, nothing is wired.
MkdirFail(c) ==
  /\ call[c].pc = "mkdir"
  /\ call' = [call EXCEPT ![c].result = Rejected("mkdir"), ![c].pc = "done"]
  /\ UNCHANGED <<dirs, nsExists, staging, files, lineVars, helperVars>>

\* tmpdir: mkdir(dir, { recursive: true }) resolved.
TmpdirMkdir(c) ==
  /\ call[c].pc = "tmpdir"
  /\ nsExists' = TRUE
  /\ call' = [call EXCEPT ![c].pc = "mkdtemp"]
  /\ UNCHANGED <<dirs, staging, files, lineVars, helperVars>>

\* tmpdir: mkdtemp resolved with a fresh directory; lines 157-165 run without
\* a break: the write stream is created and piped, the listeners attached and
\* response resumed.
Mkdtemp(c) ==
  /\ call[c].pc = "mkdtemp"
  /\ nsExists
  /\ staging' = staging \cup {c}
  /\ call' = [call EXCEPT ![c].write = NewStage,
                          ![c].wired = TRUE,
                          ![c].ops = @ \cup AtWiring,
                          ![c].flowing = TRUE,
                          ![c].pc = "await"]
  /\ UNCHANGED <<dirs, nsExists, files, lineVars, helperVars>>

\* tmpdir rejected (mkdir failed; or mkdtemp failed, as it does when the
\* namespace was removed in between): the call rejects.
TmpdirFail(c) ==
  /\ call[c].pc \in {"tmpdir", "mkdtemp"}
  /\ call' = [call EXCEPT ![c].result = Rejected("tmpdir"), ![c].pc = "done"]
  /\ UNCHANGED <<dirs, nsExists, staging, files, lineVars, helperVars>>

\* response emits 'data'.  Piped, the chunk is written to the first stage
\* (dropped when that stage is no longer open); with no consumer it is lost.
ResponseData(c) ==
  /\ Running(c)
  /\ call[c].response = "open"
  /\ call[c].flowing
  /\ call[c].sent < NChunks
  /\ call' = [call EXCEPT
       ![c].sent = @ + 1,
       ![c].got = IF call[c].wired /\ call[c][First(c)].st = "open" THEN @ + 1 ELSE @,
       ![c].lost = IF call[c].wired THEN @ ELSE @ + 1,
       ![c].early = IF DownloadPath(c) \in dirs THEN @ ELSE @ + 1]
  /\ UNCHANGED <<dirs, nsExists, staging, files, lineVars, helperVars>>

\* response emits 'end': pipe ends the first stage.
ResponseEnd(c) ==
  /\ Running(c)
  /\ call[c].response = "open"
  /\ call[c].flowing
  /\ call' = [call EXCEPT
       ![c].response = "ended",
       ![c][First(c)] = IF call[c].wired THEN End(@) ELSE @]
  /\ UNCHANGED <<dirs, nsExists, staging, files, lineVars, helperVars>>

\* response emits 'error' (a network failure), paused or flowing.  The listener
\* of line 132 / 160 runs if it is attached already.
ResponseError(c) ==
  /\ Running(c)
  /\ call[c].response = "open"
  /\ call' = [call EXCEPT
       ![c].response = "errored",
       ![c].errAt = IF call[c].wired THEN "wired" ELSE "prewire",
       ![c][First(c)] = IF call[c].wired THEN OnResponseError(@, "source") ELSE @]
  /\ UNCHANGED <<dirs, nsExists, staging, files, lineVars, helperVars>>

\* response is closed with neither 'end' nor 'error' (an aborted download).
ResponseClose(c) ==
  /\ Running(c)
  /\ call[c].response = "open"
  /\ call' = [call EXCEPT ![c].response = "closed"]
  /\ UNCHANGED <<dirs, nsExists, staging, files, lineVars, helperVars>>

\* gunzip finds its input corrupt or truncated and emits 'error'.
DecompressError(c) ==
  /\ call[c].decompress.st \in Alive
  /\ call[c].got > 0 \/ call[c].decompress.st = "inputEnded"
  /\ call' = [call EXCEPT
       ![c].decompress = Fail(@, "gunzip"),
       ![c].destination = OnDecompressError(@, "gunzip"),
       ![c].ops = OnFailure(@)]
  /\ UNCHANGED <<dirs, nsExists, staging, files, lineVars, helperVars>>

\* gunzip, destroyed with an error, emits it.
DecompressDestroyed(c) ==
  /\ call[c].decompress.st = "destroying"
  /\ call' = [call EXCEPT
       ![c].decompress = Fail(@, @.err),
       ![c].destination = OnDecompressError(@, call[c].decompress.err),
       ![c].ops = OnFailure(@)]
  /\ UNCHANGED <<dirs, nsExists, staging, files, lineVars, helperVars>>

\* gunzip emits 'end': pipe ends the tar extraction.
DecompressEnd(c) ==
  /\ call[c].decompress.st = "inputEnded"
  /\ call' = [call EXCEPT
       ![c].decompress = [@ EXCEPT !.st = "ended"],
       ![c].destination = End(@)]
  /\ UNCHANGED <<dirs, nsExists, staging, files, lineVars, helperVars>>

\* The tar extraction fails (a bad archive, a write that fails) and emits 'error'.
DestinationError(c) ==
  /\ call[c].destination.st \in Alive
  /\ call' = [call EXCEPT
       ![c].destination = Fail(@, "tar"),
       ![c].promise = OnError(@, "tar"),
       ![c].ops = OnFailure(@)]
  /\ UNCHANGED <<dirs, nsExists, staging, files, lineVars, helperVars>>

\* The tar extraction, destroyed with an error, emits it.
DestinationDestroyed(c) ==
  /\ call[c].destination.st = "destroying"
  /\ call' = [call EXCEPT
       ![c].destination = Fail(@, @.err),
       ![c].promise = OnError(@, call[c].destination.err),
       ![c].ops = OnFailure(@)]
  /\ UNCHANGED <<dirs, nsExists, staging, files, lineVars, helperVars>>

\* The tar extraction emits 'finish'.
DestinationFinish(c) ==
  /\ call[c].destination.st = "inputEnded"
  /\ call' = [call EXCEPT
       ![c].destination = [@ EXCEPT !.st = "finished"],
       ![c].promise = OnFinish(@)]
  /\ UNCHANGED <<dirs, nsExists, staging, files, lineVars, helperVars>>

\* extractTar: the awaited promise resolved; return downloadPath.
TarReturn(c) ==
  /\ call[c].kind = "tar"
  /\ call[c].pc = "await"
  /\ call[c].promise.st = "resolved"
  /\ call' = [call EXCEPT ![c].result = Resolved,
                          ![c].value = ReturnValue(c),
                          ![c].pc = "done"]
  /\ UNCHANGED <<dirs, nsExists, staging, files, lineVars, helperVars>>

\* The awaited promise rejected: the call rejects with its error.
Throw(c) ==
  /\ call[c].pc = "await"
  /\ call[c].promise.st = "rejected"
  /\ call' = [call EXCEPT ![c].result = call[c].promise,
                          ![c].ops = OnFailure(@),
                          ![c].pc = "done"]
  /\ UNCHANGED <<dirs, nsExists, staging, files, lineVars, helperVars>>

\* The write stream fails (disk full, its directory gone) and emits 'error'.
WriteError(c) ==
  /\ call[c].write.st \in Alive
  /\ call' = [call EXCEPT
       ![c].write = Fail(@, "write"),
       ![c].promise = OnError(@, "write"),
       ![c].ops = OnFailure(@)]
  /\ UNCHANGED <<dirs, nsExists, staging, files, lineVars, helperVars>>

\* The write stream, destroyed with an error, emits it.
WriteDestroyed(c) ==
  /\ call[c].write.st = "destroying"
  /\ call' = [call EXCEPT
       ![c].write = Fail(@, @.err),
       ![c].promise = OnError(@, call[c].write.err),
       ![c].ops = OnFailure(@)]
  /\ UNCHANGED <<dirs, nsExists, staging, files, lineVars, helperVars>>

\* The write stream emits 'finish': archive.zip is written, if its directory
\* is still there.
WriteFinish(c) ==
  /\ call[c].write.st = "inputEnded"
  /\ files' = IF c \in staging THEN files \cup {c} ELSE files
  /\ call' = [call EXCEPT
       ![c].write = [@ EXCEPT !.st = "finished"],
       ![c].promise = OnFinish(@)]
  /\ UNCHANGED <<dirs, nsExists, staging, lineVars, helperVars>>

\* extractZip: the awaited promise resolved; unzip(zipPath, ...) is called.
ZipWritten(c) ==
  /\ call[c].kind = "zip"
  /\ call[c].pc = "await"
  /\ call[c].promise.st = "resolved"
  /\ call' = [call EXCEPT ![c].pc = "unzip"]
  /\ UNCHANGED <<dirs, nsExists, staging, files, lineVars, helperVars>>

\* unzip resolved; clean("zip-staging") is called.
UnzipDone(c) ==
  /\ call[c].pc = "unzip"
  /\ c \in files
  /\ call' = [call EXCEPT ![c].extracted = TRUE, ![c].pc = "clean"]
  /\ UNCHANGED <<dirs, nsExists, staging, files, lineVars, helperVars>>

\* unzip rejected (a bad archive, archive.zip gone): the call rejects.
UnzipFail(c) ==
  /\ call[c].pc = "unzip"
  /\ call' = [call EXCEPT ![c].result = Rejected("unzip"),
                          ![c].ops = OnFailure(@),
                          ![c].pc = "done"]
  /\ UNCHANGED <<dirs, nsExists, staging, files, lineVars, helperVars>>

\* clean: rmdir(dir, { recursive: true }) resolved: the whole namespace is
\* gone; return downloadPath.
CleanDone(c) ==
  /\ call[c].pc = "clean"
  /\ CleanStaging(c).ok
  /\ nsExists' = CleanStaging(c).exists
  /\ staging' = CleanStaging(c).entries
  /\ files' = files \cap CleanStaging(c).entries
  /\ call' = [call EXCEPT ![c].cleanRan = TRUE,
                          ![c].result = Resolved,
                          ![c].value = ReturnValue(c),
                          ![c].pc = "done"]
  /\ UNCHANGED <<dirs, lineVars, helperVars>>

\* clean rejected (rmdir refused, or failed on something it had to remove):
\* the call rejects.
CleanFail(c) ==
  /\ call[c].pc = "clean"
  /\ ~CleanStaging(c).ok \/ nsExists
  /\ call' = [call EXCEPT ![c].cleanRan = TRUE,
                          ![c].result = Rejected("clean"),
                          ![c].pc = "done"]
  /\ UNCHANGED <<dirs, nsExists, staging, files, lineVars, helperVars>>

ResponseEvent(c) ==
  ResponseData(c) \/ ResponseEnd(c) \/ ResponseError(c) \/ ResponseClose(c)

TarStep(c) ==
  \/ TarMkdirDone(c) \/ DecompressError(c) \/ DecompressDestroyed(c)
  \/ DecompressEnd(c) \/ DestinationError(c) \/ DestinationDestroyed(c)
  \/ DestinationFinish(c) \/ TarReturn(c)

ZipStep(c) ==
  \/ ZipMkdirDone(c) \/ TmpdirMkdir(c) \/ Mkdtemp(c) \/ TmpdirFail(c)
  \/ WriteError(c) \/ WriteDestroyed(c) \/ WriteFinish(c) \/ ZipWritten(c)
  \/ UnzipDone(c) \/ UnzipFail(c) \/ CleanDone(c) \/ CleanFail(c)

NextTar ==
  \E c \in Calls :
    Enter(c) \/ MkdirFail(c) \/ Throw(c) \/ ResponseEvent(c) \/ TarStep(c)

NextZip ==
  \E c \in Calls :
    Enter(c) \/ MkdirFail(c) \/ Throw(c) \/ ResponseEvent(c) \/ ZipStep(c)

NextExtract == NextTar \/ NextZip

InitExtract == IdleLineVars /\ InitExtractVars /\ IdleHelperVars

InitTar == InitExtract /\ call[1].kind = "tar"

InitZip == InitExtract /\ call[1].kind = "zip"

\* One extractTar call.
SpecTar == InitTar /\ [][NextTar]_vars

\* One or two extractZip calls.
SpecZip == InitZip /\ [][NextZip]_vars

\* Either.
SpecExtract == InitExtract /\ [][NextExtract]_vars

\* What the event loop guarantees of one extractTar call: a pending file
\* operation completes, a destroyed stage emits its error, a stage whose
\* input ended finishes unless it fails, and the continuation of a settled await
\* runs.  Nothing is assumed of the events of response, nor of a stage that
\* waits for input.
FairSpecTar ==
  /\ SpecTar
  /\ \A c \in Calls :
       /\ WF_vars(Enter(c))
       /\ WF_vars(TarMkdirDone(c) \/ MkdirFail(c))
       /\ WF_vars(DecompressDestroyed(c))
       /\ WF_vars(DecompressEnd(c))
       /\ WF_vars(DestinationDestroyed(c))
       /\ WF_vars(DestinationFinish(c))
       /\ WF_vars(TarReturn(c))
       /\ WF_vars(Throw(c))

\* ------------------------------------------------ archive extractor: claims

TarCalls == {c \in Calls : call[c].kind = "tar"}
ZipCalls == {c \in Calls : call[c].kind = "zip"}

\* C6: in extractTar an error of response at any point of the call destroys
\* gunzip, and an error of gunzip destroys the tar extraction: no stage has
\* failed while the next stage is still alive.
C6_ErrorsDestroyNextStage ==
  \A c \in TarCalls :
    /\ call[c].response = "errored" => call[c].decompress.st \notin Alive
    /\ call[c].decompress.st = "errored" => call[c].destination.st \notin Alive

\* response reported its error after the listeners were attached.
MidStreamError(c) == call[c].errAt = "wired"

\* C7: if response reports an error mid-stream during extractTar, the call
\* never resolves and eventually rejects.
C7_MidStreamErrorRejects ==
  \A c \in Calls :
    /\ [](call[c].kind = "tar" /\ MidStreamError(c) => call[c].result.st # "resolved")
    /\ (call[c].kind = "tar" /\ MidStreamError(c)) ~> (call[c].result.st = "rejected")

\* The call rejected with the error response reported after a chunk.
C7_Witness ==
  /\ call[1].kind = "tar"
  /\ MidStreamError(1)
  /\ call[1].sent >= 1
  /\ call[1].result = Rejected("source")

\* C8: extractTar resolves only once the tar extraction has emitted 'finish',
\* and with the downloadPath it was given; once the tar extraction has emitted
\* 'error' the awaited promise is rejected and the call rejects; a call that
\* rejected has not seen 'finish' and one that resolved has not seen 'error'.
C8_ResolveOnFinishRejectOnError ==
  \A c \in TarCalls :
    /\ call[c].promise.st = "resolved" => call[c].destination.st = "finished"
    /\ call[c].result.st = "resolved" =>
         /\ call[c].destination.st = "finished"
         /\ call[c].value = DownloadPath(c)
    /\ call[c].destination.st = "errored" =>
         /\ call[c].promise = Rejected(call[c].destination.err)
         /\ call[c].result.st # "resolved"
         /\ call[c].pc = "done" => call[c].result = Rejected(call[c].destination.err)
    /\ call[c].result.st = "rejected" => call[c].destination.st # "finished"

\* The call resolved with its downloadPath after data went through.
C8_Witness ==
  /\ call[1].kind = "tar"
  /\ call[1].got >= 1
  /\ call[1].result.st = "resolved"
  /\ call[1].value = DownloadPath(1)

\* A call that has entered and not yet wired its stages.
PreWire(c) == call[c].pc \in {"mkdir", "tmpdir", "mkdtemp"}

\* C9: in extractTar and extractZip response is paused from entry until the
\* stages and listeners are wired; no chunk is emitted before the destination
\* directory exists or with no consumer attached, and none is lost.
C9_NoDataBeforeWired ==
  \A c \in Calls :
    /\ PreWire(c) => ~call[c].flowing /\ call[c].sent = 0
    /\ call[c].lost = 0
    /\ call[c].early = 0
    /\ call[c].sent > 0 => call[c].wired /\ DownloadPath(c) \in dirs
    /\ call[c].got > 0 => call[c][First(c)].st # "none"

\* One call has received a chunk after wiring while another, entered and not
\* yet wired, is still paused.
C9_Witness ==
  /\ call[1].kind = "zip"
  /\ call[1].got >= 1
  /\ call[1].wired
  /\ call[2].pc = "mkdtemp"
  /\ ~call[2].flowing

\* C10: after an extractZip call has returned, resolved or rejected, the
\* staging directory it created no longer exists.
C10_StagingRemovedAfterReturn ==
  \A c \in ZipCalls : call[c].pc = "done" => c \notin staging

\* C11: in extractZip unzip is invoked only after the write stream emitted
\* 'finish', the whole of response written to it, and never after a write
\* failure; clean is started only after unzip has resolved.
C11_UnzipAfterFinishCleanAfterUnzip ==
  \A c \in ZipCalls :
    /\ call[c].pc \in {"unzip", "clean"} \/ call[c].extracted \/ call[c].cleanRan =>
         /\ call[c].write.st = "finished"
         /\ call[c].response = "ended"
         /\ call[c].got = call[c].sent
    /\ call[c].write.st \in {"destroying", "errored"} =>
         /\ call[c].pc \notin {"unzip", "clean"}
         /\ ~call[c].extracted /\ ~call[c].cleanRan
    /\ call[c].pc = "clean" \/ call[c].cleanRan => call[c].extracted

\* A call has written two chunks, unzipped and cleaned.
C11_Witness ==
  /\ call[1].kind = "zip"
  /\ call[1].sent = 2
  /\ call[1].extracted
  /\ call[1].cleanRan
  /\ call[1].result.st = "resolved"

\* C12: in extractZip an error of response at any point of the call destroys
\* the write stream: the write stream is never alive behind a response that
\* has failed, and the call neither goes on to unzip nor resolves.
C12_SourceErrorDestroysWrite ==
  \A c \in ZipCalls :
    call[c].response = "errored" =>
      /\ call[c].write.st \notin Alive
      /\ call[c].pc \notin {"unzip", "clean"}
      /\ call[c].result.st # "resolved"

\* C13: in extractZip a failure of clean does not change the primary
\* outcome: a call whose write and unzip both succeeded returns resolved with
\* downloadPath, and a call whose write or unzip failed rejects with that
\* error after clean has run.
C13_CleanupKeepsPrimaryOutcome ==
  \A c \in ZipCalls :
    call[c].pc = "done" =>
      /\ call[c].extracted =>
           call[c].result = Resolved /\ call[c].value = DownloadPath(c)
      /\ call[c].result.st = "rejected" /\ call[c].result.err \in {"source", "write", "unzip"} =>
           call[c].cleanRan

\* A call whose staging directory is in use: created, not yet extracted.
InFlight(c) == call[c].pc \in {"await", "unzip"}

\* C14: overlapping extractZip calls each write to a staging directory of
\* their own, and a successful cleanup by any of them removes the whole
\* zip-staging namespace, the staging directories and files of the other
\* calls included.
C14_CleanupRemovesEveryStagingDir ==
  /\ [](\A c, d \in ZipCalls : c # d => TempDir(c) # TempDir(d))
  /\ [][\A c \in ZipCalls :
          call[c].pc = "clean" /\ call'[c].result.st = "resolved" =>
            staging' = {} /\ files' = {} /\ ~nsExists']_vars

\* The race: the cleanup of call 2 has removed the staging directory of call
\* 1 while call 1 is still writing to it or has yet to extract from it.
C14_Witness ==
  /\ call[1].kind = "zip" /\ call[2].kind = "zip"
  /\ InFlight(1)
  /\ call[1].write.st \in {"open", "inputEnded", "finished"}
  /\ 1 \notin staging
  /\ call[2].cleanRan /\ call[2].result.st = "resolved"

\* C17: extractTar and extractZip call nothing on the source stream but
\* pause, resume, pipe and on, whatever has failed since; the source is still
\* open after a stage failed unless it ended, failed or was closed by itself.
C17_SourceNeverClosed ==
  \A c \in Calls : call[c].ops \subseteq {"pause", "resume", "pipe", "on"}

\* Gunzip failed on its input and the tar call rejected: its source, wired
\* and resumed, is still open.
C17_Witness ==
  \E c \in TarCalls :
    /\ call[c].decompress = Fail(NewStage, "gunzip")
    /\ call[c].result = Rejected("gunzip")
    /\ call[c].ops = {"pause", "pipe", "on", "resume"}
    /\ call[c].response = "open"

\* C20: once the source of an extractTar call has terminated (it ended,
\* reported an error, or was closed with neither), the call eventually
\* settles: it resolves or rejects.
C20_SettlesAfterSourceTerminates ==
  \A c \in Calls :
    (call[c].kind = "tar" /\ call[c].response # "open")
      ~> (call[c].result.st # "pending")

\* ------------------------------------------ temporary directories: behaviour

OtherThanTemp == <<call, dirs, files, lineVars, events, exitPromise>>

\* tmpdir(name) is called: mkdir(dir, { recursive: true }) is awaited.
CallTmpdir(p) ==
  /\ op[p].fn = "none"
  /\ op' = [op EXCEPT ![p].fn = "tmpdir", ![p].pc = "mkdir"]
  /\ UNCHANGED <<nsExists, staging, OtherThanTemp>>

\* tmpdir: mkdir resolved; mkdtemp is awaited.
TmpMkdir(p) ==
  /\ op[p].pc = "mkdir"
  /\ nsExists' = TRUE
  /\ op' = [op EXCEPT ![p].pc = "mkdtemp"]
  /\ UNCHANGED <<staging, OtherThanTemp>>

\* tmpdir: mkdtemp resolved with a directory of a fresh name.
TmpMkdtemp(p) ==
  /\ op[p].pc = "mkdtemp"
  /\ nsExists
  /\ staging' = staging \cup {p}
  /\ op' = [op EXCEPT ![p].result = Resolved, ![p].pc = "done"]
  /\ UNCHANGED <<nsExists, OtherThanTemp>>

\* tmpdir rejected (mkdir failed; or mkdtemp failed, as it does when the
\* namespace was removed in between).
TmpFail(p) ==
  /\ op[p].pc \in {"mkdir", "mkdtemp"}
  /\ op' = [op EXCEPT ![p].result = Rejected("tmpdir"), ![p].pc = "done"]
  /\ UNCHANGED <<nsExists, staging, OtherThanTemp>>

\* clean(name) is called: rmdir is awaited.
CallClean(p) ==
  /\ op[p].fn = "none"
  /\ op' = [op EXCEPT ![p].fn = "clean", ![p].pc = "rmdir"]
  /\ UNCHANGED <<nsExists, staging, OtherThanTemp>>

\* clean: rmdir resolved.
CleanResolve(p) ==
  /\ op[p].pc = "rmdir"
  /\ Rmdir(nsExists, staging).ok
  /\ nsExists' = Rmdir(nsExists, staging).exists
  /\ staging' = Rmdir(nsExists, staging).entries
  /\ op' = [op EXCEPT ![p].result = Resolved,
                      ![p].before = nsExists,
                      ![p].after = Rmdir(nsExists, staging),
                      ![p].pc = "done"]
  /\ UNCHANGED OtherThanTemp

\* clean: rmdir rejected (it was refused, or failed on something it had to
\* remove).
CleanReject(p) ==
  /\ op[p].pc = "rmdir"
  /\ ~Rmdir(nsExists, staging).ok \/ nsExists
  /\ op' = [op EXCEPT ![p].result = Rejected("clean"),
                      ![p].before = nsExists,
                      ![p].pc = "done"]
  /\ UNCHANGED <<nsExists, staging, OtherThanTemp>>

NextTemp ==
  \E p \in Ops :
    \/ CallTmpdir(p) \/ TmpMkdir(p) \/ TmpMkdtemp(p) \/ TmpFail(p)
    \/ CallClean(p) \/ CleanResolve(p) \/ CleanReject(p)

\* No namespace was ever created.
InitTemp == IdleLineVars /\ IdleExtractVars /\ IdleHelperVars

SpecTemp == InitTemp /\ [][NextTemp]_vars

\* --------------------------------------------- temporary directories: claims

ProcEmit(e) ==
  /\ Len(events) < MaxEvents
  /\ events' = Append(events, e)
  /\ exitPromise' = IF e.type = "error" THEN OnProcError(exitPromise, e.arg)
                    ELSE OnExit(exitPromise, e.arg)
  /\ UNCHANGED <<op, lineVars, extractVars>>

NextExit == \E e \in ProcEvents : ProcEmit(e)

\* wrapExit(proc) has returned its promise; the process has emitted nothing.
InitExit == IdleLineVars /\ IdleExtractVars /\ IdleHelperVars

SpecExit == InitExit /\ [][NextExit]_vars

\* C16: the promise of wrapExit is settled by the first 'error' or 'exit'
\* event and by no later one: it is resolved only when that event is an exit
\* with code 0, rejected with the error when it is an 'error', and rejected
\* with the failure of the command when it is an exit with any other code or
\* with none.
C16_SettledOnceByFirstEvent ==
  /\ events = <<>> <=> exitPromise.st = "pending"
  /\ events # <<>> =>
       LET first == Head(events)
       IN /\ exitPromise.st = "resolved" <=> (first.type = "exit" /\ first.arg = "0")
          /\ first.type = "error" => exitPromise = Rejected(first.arg)
          /\ first.type = "exit" /\ first.arg # "0" =>
               /\ exitPromise.st = "rejected"
               /\ exitPromise.err \in {"failed with code 1", "failed with code null"}

\* The process exited with no code, then an 'error' and an exit with code 0
\* followed: the promise stays rejected.
C16_Witness ==
  /\ Len(events) = 3
  /\ events[1] = [type |-> "exit", arg |-> "null"]
  /\ events[2].type = "error"
  /\ events[3] = [type |-> "exit", arg |-> "0"]
  /\ exitPromise = Rejected("failed with code null")

====
